---- MODULE Spec2Model ----
(***************************************************************************)
(* Model of utils/common.py of Satellite-Calculator:                       *)
(*   - make_bounded_time_list   (the time grid builder)                    *)
(*   - find_sat_events          (the transit matcher)                      *)
(*   - ObservatorySatelliteFactory (_make_sat_list, __len__, __iter__)     *)
(* Instants and durations are integers (days); an Optional value is the    *)
(* empty sequence (None) or a one-element sequence.                        *)
(***************************************************************************)
EXTENDS Integers, Sequences, FiniteSets

VARIABLES
    \* find_sat_events
    events,         \* events_zipped: sequence of [time, flag]
    rv_transits,    \* sequence of [start, end, culm]
    pc,             \* position inside find_sat_events
    ev_i,           \* index of the event of the second for loop (1-based)
    test_i,         \* test_i of the while loop (0-based, as in the code)
    assigns,        \* end assignments made for the current SET event
    \* ObservatorySatelliteFactory
    active_sats, active_observatories, chain_tles, start_utc, end_days,
    end_utc, sat_list, len_result, iter_result, cat_state,
    \* make_bounded_time_list
    start_time, end_time, step_size, time_list, grid_state

matchVars == <<events, rv_transits, pc, ev_i, test_i, assigns>>
catVars == <<active_sats, active_observatories, chain_tles, start_utc,
             end_days, end_utc, sat_list, len_result, iter_result, cat_state>>
gridVars == <<start_time, end_time, step_size, time_list, grid_state>>
vars == <<matchVars, catVars, gridVars>>

----------------------------------------------------------------------------
(* Bounds *)

MaxEvents == 4
MaxAnyOrder == 3
MaxSats == 3
MaxEpoch == 2
MaxObs == 2
MaxTime == 4
MaxStep == 3

(* Event flags of find_events: 0 = rise, 1 = culminate, 2 = set *)
RISE == 0
CULMINATE == 1
SET == 2

None == <<>>
Some(v) == <<v>>

SeqsUpTo(S, n) == UNION {[1..k -> S] : k \in 0..n}

----------------------------------------------------------------------------
(* find_sat_events *)

EventsOver(n) == [time : 1..n, flag : {RISE, CULMINATE, SET}]

Chronological(evs) ==
    \A i \in 1..(Len(evs) - 1) : evs[i].time <= evs[i + 1].time

\* DayTransits(in_obs_sat, limit_alt) with start set: end is None, no culminations
NewTransit(t) == [start |-> t, end |-> None, culm |-> <<>>]

\* DayTransits.add(time): records the culmination instant on the transit
TransitAdd(tr, t) == [tr EXCEPT !.culm = Append(@, t)]

RECURSIVE RiseTransits(_)
RiseTransits(evs) ==
    IF evs = <<>> THEN <<>>
    ELSE LET rest == RiseTransits(SubSeq(evs, 1, Len(evs) - 1))
             e == evs[Len(evs)]
         IN IF e.flag = RISE THEN Append(rest, NewTransit(e.time)) ELSE rest

\* mutants of the condition of the while loop
EligibleStartAfter(tr, s) ==
    (IF tr.end = None THEN TRUE ELSE tr.end[1] < s) /\ (tr.start > s)

EligibleOrEqual(tr, s) ==
    (IF tr.end = None THEN TRUE ELSE tr.end[1] <= s) /\ (tr.start < s)

\* the condition under which the while loop assigns the SET instant s
Eligible(tr, s) ==
    (IF tr.end = None THEN TRUE ELSE tr.end[1] < s) /\ (tr.start < s)

RECURSIVE AddAll(_, _)
AddAll(tr, evs) ==
    IF evs = <<>> THEN tr
    ELSE LET e == evs[1]
             nxt == IF e.flag = CULMINATE THEN TransitAdd(tr, e.time) ELSE tr
         IN AddAll(nxt, Tail(evs))

MatchIdle ==
    /\ events = <<>> /\ rv_transits = <<>> /\ pc = "idle"
    /\ ev_i = 1 /\ test_i = 0 /\ assigns = 0

InitMatchWith(evs) ==
    /\ events = evs /\ rv_transits = <<>> /\ pc = "rises"
    /\ ev_i = 1 /\ test_i = 0 /\ assigns = 0

\* first for loop: one transit per RISE event
CreateTransits ==
    /\ pc = "rises"
    /\ rv_transits' = RiseTransits(events)
    /\ pc' = "sets"
    /\ ev_i' = 1 /\ test_i' = 0 /\ assigns' = 0
    /\ UNCHANGED events
    /\ UNCHANGED <<catVars, gridVars>>

\* second for loop, an event that is not a SET
SkipEvent ==
    /\ pc = "sets" /\ ev_i <= Len(events)
    /\ events[ev_i].flag # SET
    /\ ev_i' = ev_i + 1 /\ test_i' = 0 /\ assigns' = 0
    /\ UNCHANGED <<events, rv_transits, pc>>
    /\ UNCHANGED <<catVars, gridVars>>

\* while loop, if branch: assign the end and restart from index 0
AssignEnd ==
    /\ pc = "sets" /\ ev_i <= Len(events)
    /\ events[ev_i].flag = SET
    /\ test_i < Len(rv_transits)
    /\ Eligible(rv_transits[test_i + 1], events[ev_i].time)
    /\ rv_transits' = [rv_transits EXCEPT ![test_i + 1].end = Some(events[ev_i].time)]
    /\ test_i' = 0
    /\ assigns' = IF assigns <= Len(rv_transits) THEN assigns + 1 ELSE assigns
    /\ UNCHANGED <<events, pc, ev_i>>
    /\ UNCHANGED <<catVars, gridVars>>

\* while loop, else branch
AdvanceScan ==
    /\ pc = "sets" /\ ev_i <= Len(events)
    /\ events[ev_i].flag = SET
    /\ test_i < Len(rv_transits)
    /\ ~Eligible(rv_transits[test_i + 1], events[ev_i].time)
    /\ test_i' = test_i + 1
    /\ UNCHANGED <<events, rv_transits, pc, ev_i, assigns>>
    /\ UNCHANGED <<catVars, gridVars>>

\* while loop exit: on to the next event
FinishScan ==
    /\ pc = "sets" /\ ev_i <= Len(events)
    /\ events[ev_i].flag = SET
    /\ test_i >= Len(rv_transits)
    /\ ev_i' = ev_i + 1 /\ test_i' = 0 /\ assigns' = 0
    /\ UNCHANGED <<events, rv_transits, pc>>
    /\ UNCHANGED <<catVars, gridVars>>

\* second for loop exhausted
EndSets ==
    /\ pc = "sets" /\ ev_i > Len(events)
    /\ pc' = "culms"
    /\ UNCHANGED <<events, rv_transits, ev_i, test_i, assigns>>
    /\ UNCHANGED <<catVars, gridVars>>

\* third loop: every CULMINATE event is added to every transit; return
AddCulminations ==
    /\ pc = "culms"
    /\ rv_transits' = [i \in 1..Len(rv_transits) |-> AddAll(rv_transits[i], events)]
    /\ pc' = "done"
    /\ UNCHANGED <<events, ev_i, test_i, assigns>>
    /\ UNCHANGED <<catVars, gridVars>>

----------------------------------------------------------------------------
(* ObservatorySatelliteFactory *)

Names == {"A", "B"}
SatRecords == [name : Names, epoch : 0..MaxEpoch]

Key(sat) == <<sat.name, sat.epoch>>

\* uniq_sats: a dict keyed by name and epoch; the last record of a key wins
\* and keeps the position of the key's first insertion
RECURSIVE UniqSats(_)
UniqSats(raw) ==
    IF raw = <<>> THEN <<>>
    ELSE LET init == UniqSats(SubSeq(raw, 1, Len(raw) - 1))
             x == raw[Len(raw)]
         IN IF \E i \in 1..Len(init) : Key(init[i]) = Key(x)
            THEN [i \in 1..Len(init) |-> IF Key(init[i]) = Key(x) THEN x ELSE init[i]]
            ELSE Append(init, x)

\* keys of organized_sats, in insertion order
RECURSIVE NameOrder(_)
NameOrder(sats) ==
    IF sats = <<>> THEN <<>>
    ELSE LET init == NameOrder(SubSeq(sats, 1, Len(sats) - 1))
             n == sats[Len(sats)].name
         IN IF \E i \in 1..Len(init) : init[i] = n THEN init ELSE Append(init, n)

OrganizedSats(sats, n) == SelectSeq(sats, LAMBDA s : s.name = n)

InsertByEpoch(x, s) ==
    LET k == Cardinality({i \in 1..Len(s) : s[i].epoch <= x.epoch})
    IN SubSeq(s, 1, k) \o <<x>> \o SubSeq(s, k + 1, Len(s))

\* sorted(sat_list, key=jdsatepoch), a stable sort
RECURSIVE SortedByEpoch(_)
SortedByEpoch(s) ==
    IF s = <<>> THEN <<>>
    ELSE InsertByEpoch(s[Len(s)], SortedByEpoch(SubSeq(s, 1, Len(s) - 1)))

\* start_dates: the epochs before end_utc
StartDates(sorted, endUtc) ==
    SelectSeq([i \in 1..Len(sorted) |-> sorted[i].epoch], LAMBDA x : x < endUtc)

NumpyDiff(a) == [i \in 1..(Len(a) - 1) |-> a[i + 1] - a[i]]

\* mutant: the last validity duration measured from the first epoch
DatesDiffFromFirst(startDates, endUtc) ==
    Append(NumpyDiff(startDates), endUtc - startDates[1])

\* dates_diff, for a non-empty start_dates
DatesDiff(startDates, endUtc) ==
    Append(NumpyDiff(startDates), endUtc - startDates[Len(startDates)])

Min2(a, b) == IF a <= b THEN a ELSE b

Zip3(a, b, c) ==
    [i \in 1..Min2(Len(a), Min2(Len(b), Len(c))) |-> <<a[i], b[i], c[i]>>]

\* the body of the loop over organized_sats.values(); start_dates[-1] raises
\* IndexError when start_dates is empty
ChainGroup(group, endUtc) ==
    LET sorted == SortedByEpoch(group)
        startDates == StartDates(sorted, endUtc)
    IN IF startDates = <<>>
       THEN [ok |-> FALSE, list |-> <<>>]
       ELSE [ok |-> TRUE,
             list |-> Zip3(startDates, DatesDiff(startDates, endUtc), sorted)]

RECURSIVE ChainedSats(_, _, _)
ChainedSats(sats, names, endUtc) ==
    IF names = <<>> THEN [ok |-> TRUE, list |-> <<>>]
    ELSE LET g == ChainGroup(OrganizedSats(sats, names[1]), endUtc)
             rest == ChainedSats(sats, Tail(names), endUtc)
         IN IF g.ok /\ rest.ok
            THEN [ok |-> TRUE, list |-> g.list \o rest.list]
            ELSE [ok |-> FALSE, list |-> <<>>]

\* _make_sat_list: the value of _sat_list after the call, or the error
MakeSatList ==
    IF sat_list # None THEN [ok |-> TRUE, list |-> sat_list[1]]
    ELSE IF chain_tles
         THEN ChainedSats(active_sats, NameOrder(active_sats), end_utc)
         ELSE [ok |-> TRUE, list |-> active_sats]

RECURSIVE ChainFromIterable(_)
ChainFromIterable(ss) ==
    IF ss = <<>> THEN <<>> ELSE ss[1] \o ChainFromIterable(Tail(ss))

WorkItem(chain, startUtc, endDays, obs, slot) ==
    IF chain THEN <<slot[1], slot[2], <<obs, slot[3]>>>>
    ELSE <<startUtc, endDays, <<obs, slot>>>>

\* mutant: the cross product enumerated slot-major
IterItemsSlotMajor(chain, startUtc, endDays, observatories, slots) ==
    ChainFromIterable(
        [s \in 1..Len(slots) |->
            [o \in 1..Len(observatories) |->
                WorkItem(chain, startUtc, endDays, observatories[o], slots[s])]])

\* the items of the iterator __iter__ returns
IterItems(chain, startUtc, endDays, observatories, slots) ==
    ChainFromIterable(
        [o \in 1..Len(observatories) |->
            [s \in 1..Len(slots) |->
                WorkItem(chain, startUtc, endDays, observatories[o], slots[s])]])

CatIdle ==
    /\ active_sats = <<>> /\ active_observatories = <<>> /\ chain_tles = FALSE
    /\ start_utc = 0 /\ end_days = 0 /\ end_utc = 0
    /\ sat_list = None /\ len_result = None /\ iter_result = None
    /\ cat_state = "idle"

\* __init__: _make_start_utc, _make_active_sats, _make_active_obs
InitCatalog ==
    /\ \E raw \in SeqsUpTo(SatRecords, MaxSats) : active_sats = UniqSats(raw)
    /\ \E n \in 0..MaxObs : active_observatories = [i \in 1..n |-> i]
    /\ chain_tles \in BOOLEAN
    /\ start_utc = 0
    /\ end_days \in 1..(MaxEpoch + 1)
    /\ end_utc = start_utc + end_days
    /\ sat_list = None /\ len_result = None /\ iter_result = None
    /\ cat_state = "constructed"

\* len(factory)
CallLen ==
    /\ cat_state # "idle"
    /\ LET r == MakeSatList
       IN IF r.ok
          THEN /\ sat_list' = Some(r.list)
               /\ len_result' = Some(Len(r.list) * Len(active_observatories))
               /\ cat_state' = "returned"
               /\ UNCHANGED iter_result
          ELSE /\ cat_state' = "raised"
               /\ UNCHANGED <<sat_list, len_result, iter_result>>
    /\ UNCHANGED <<active_sats, active_observatories, chain_tles, start_utc,
                   end_days, end_utc>>
    /\ UNCHANGED <<matchVars, gridVars>>

\* list(iter(factory))
CallIter ==
    /\ cat_state # "idle"
    /\ LET r == MakeSatList
       IN IF r.ok
          THEN /\ sat_list' = Some(r.list)
               /\ iter_result' = Some(IterItems(chain_tles, start_utc, end_days,
                                                active_observatories, r.list))
               /\ cat_state' = "returned"
               /\ UNCHANGED len_result
          ELSE /\ cat_state' = "raised"
               /\ UNCHANGED <<sat_list, len_result, iter_result>>
    /\ UNCHANGED <<active_sats, active_observatories, chain_tles, start_utc,
                   end_days, end_utc>>
    /\ UNCHANGED <<matchVars, gridVars>>

----------------------------------------------------------------------------
(* make_bounded_time_list *)

\* get_off_list: the samples start, start + step, ... up to end
GetOffList(start, end, step) ==
    IF step > 0 /\ end >= start
    THEN [k \in 1..((end - start) \div step + 1) |-> start + (k - 1) * step]
    ELSE <<>>

\* mutant: boundary-coincident samples are kept
MakeBoundedInclusive(start, end, step) ==
    <<start>>
    \o SelectSeq(GetOffList(start, end, step), LAMBDA x : start <= x /\ x <= end)
    \o <<end>>

MakeBoundedTimeList(start, end, step) ==
    <<start>>
    \o SelectSeq(GetOffList(start, end, step), LAMBDA x : start < x /\ x < end)
    \o <<end>>

GridIdle ==
    /\ start_time = 0 /\ end_time = 0 /\ step_size = 0
    /\ time_list = None /\ grid_state = "idle"

InitGrid ==
    /\ start_time \in 0..MaxTime
    /\ end_time \in 0..MaxTime
    /\ \/ step_size \in 1..MaxStep
       \/ step_size \in (0 - 1)..0
    /\ time_list = None
    /\ grid_state = "call"

\* the call returns the deque
GridReturn ==
    /\ grid_state = "call"
    /\ time_list' = Some(MakeBoundedTimeList(start_time, end_time, step_size))
    /\ grid_state' = "returned"
    /\ UNCHANGED <<start_time, end_time, step_size>>
    /\ UNCHANGED <<matchVars, catVars>>

\* get_off_list may reject a step that is not positive
GridRaise ==
    /\ grid_state = "call"
    /\ step_size <= 0
    /\ grid_state' = "raised"
    /\ UNCHANGED <<start_time, end_time, step_size, time_list>>
    /\ UNCHANGED <<matchVars, catVars>>

----------------------------------------------------------------------------
(* Specifications *)

\* find_sat_events on the chronological event lists find_events produces
Init ==
    /\ \E evs \in SeqsUpTo(EventsOver(MaxEvents), MaxEvents) :
          Chronological(evs) /\ InitMatchWith(evs)
    /\ CatIdle /\ GridIdle

Next ==
    \/ CreateTransits
    \/ SkipEvent
    \/ AssignEnd
    \/ AdvanceScan
    \/ FinishScan
    \/ EndSets
    \/ AddCulminations

Spec == Init /\ [][Next]_vars

\* find_sat_events on event lists in any order; the call runs to completion
InitAnyOrder ==
    /\ \E evs \in SeqsUpTo(EventsOver(MaxAnyOrder), MaxAnyOrder) : InitMatchWith(evs)
    /\ CatIdle /\ GridIdle

LiveSpec == InitAnyOrder /\ [][Next]_vars /\ WF_vars(Next)

InitCat == InitCatalog /\ MatchIdle /\ GridIdle

NextCat == CallLen \/ CallIter

SpecCatalog == InitCat /\ [][NextCat]_vars

InitTimeGrid == InitGrid /\ MatchIdle /\ CatIdle

NextTimeGrid == GridReturn \/ GridRaise

SpecGrid == InitTimeGrid /\ [][NextTimeGrid]_vars

----------------------------------------------------------------------------
(* Properties of find_sat_events *)

Done == pc = "done"

FlagIndices(f) == {i \in 1..Len(events) : events[i].flag = f}

SetTimesAfter(t) == {events[i].time : i \in {j \in FlagIndices(SET) : events[j].time > t}}

Closed(tr) == tr.end # None

Overlap(a, b) == ~(a.end[1] < b.start \/ b.end[1] < a.start)

RiseSetEvents == SelectSeq(events, LAMBDA e : e.flag # CULMINATE)

\* complete passes at distinct instants: RISE r1 < SET s1 < RISE r2 < SET s2 ...
CompletePasses ==
    /\ \A i \in 1..(Len(events) - 1) : events[i].time < events[i + 1].time
    /\ Len(RiseSetEvents) % 2 = 0
    /\ \A i \in 1..Len(RiseSetEvents) :
          RiseSetEvents[i].flag = IF i % 2 = 1 THEN RISE ELSE SET

\* C1: for a chronologically ordered event list, two or more complete
\* RISE...SET passes included (RISE r1 < SET s1 < RISE r2 < SET s2), the
\* transits returned are pairwise disjoint: no two distinct transits with a
\* resolved end have overlapping [start, end] intervals. Stated here for the
\* lists of complete passes.
C1_TransitsDisjoint ==
    (Done /\ CompletePasses) =>
        \A i, j \in 1..Len(rv_transits) :
            (i # j /\ Closed(rv_transits[i]) /\ Closed(rv_transits[j]))
                => ~Overlap(rv_transits[i], rv_transits[j])

\* the input of C2: exactly one RISE, exactly one SET, the RISE first and
\* strictly earlier
SinglePass ==
    /\ Cardinality(FlagIndices(RISE)) = 1
    /\ Cardinality(FlagIndices(SET)) = 1
    /\ \E i \in FlagIndices(RISE), j \in FlagIndices(SET) :
          i < j /\ events[i].time < events[j].time

\* C2: an event list with exactly one RISE followed later by exactly one SET,
\* with any number of CULMINATE events, yields exactly one transit, from the
\* RISE instant to the SET instant.
C2_SinglePassOneTransit ==
    (Done /\ SinglePass) =>
        /\ Len(rv_transits) = 1
        /\ \A i \in FlagIndices(RISE) : rv_transits[1].start = events[i].time
        /\ \A j \in FlagIndices(SET) : rv_transits[1].end = Some(events[j].time)

C2_Witness ==
    /\ Done /\ SinglePass
    /\ Cardinality(FlagIndices(CULMINATE)) = 2
    /\ Len(rv_transits) = 1 /\ Closed(rv_transits[1])

\* C8: a SET instant is assigned only over a null or a later end, so that on
\* completion every transit with a non-null end ends at the earliest SET
\* instant strictly after its start.
C8_EarliestSetWins ==
    Done =>
        \A i \in 1..Len(rv_transits) :
            Closed(rv_transits[i]) =>
                /\ rv_transits[i].end[1] \in SetTimesAfter(rv_transits[i].start)
                /\ \A s \in SetTimesAfter(rv_transits[i].start) :
                      rv_transits[i].end[1] <= s

\* C9: every culmination instant recorded on a returned transit lies strictly
\* between the transit's start and its resolved end; none is recorded on a
\* transit whose end is null.
C9_CulminationsInside ==
    Done =>
        \A i \in 1..Len(rv_transits) :
            \A k \in 1..Len(rv_transits[i].culm) :
                /\ Closed(rv_transits[i])
                /\ rv_transits[i].start < rv_transits[i].culm[k]
                /\ rv_transits[i].culm[k] < rv_transits[i].end[1]

\* C10: for every finite event list, in any order and with duplicate
\* instants, each SET event causes at most one end assignment per transit
\* and find_sat_events eventually returns.
C10_Terminates ==
    /\ [](assigns <= Len(rv_transits))
    /\ <>Done

C10_Witness ==
    /\ pc = "sets"
    /\ ~Chronological(events)
    /\ \E i, j \in 1..Len(events) : i # j /\ events[i].time = events[j].time
    /\ assigns = 2

----------------------------------------------------------------------------
(* Properties of ObservatorySatelliteFactory *)

GroupIndices(n) == {i \in 1..Len(active_sats) : active_sats[i].name = n}

GroupNames == {active_sats[i].name : i \in 1..Len(active_sats)}

AllBeforeEnd(n) == \A i \in GroupIndices(n) : active_sats[i].epoch < end_utc

NoneBeforeEnd(n) == \A i \in GroupIndices(n) : active_sats[i].epoch >= end_utc

SlotsOf(n) == SelectSeq(sat_list[1], LAMBDA slot : slot[3].name = n)

Tiles(slots, n) ==
    /\ Len(slots) = Cardinality(GroupIndices(n))
    /\ \A i \in GroupIndices(n) : slots[1][1] <= active_sats[i].epoch
    /\ \A k \in 1..Len(slots) :
          /\ slots[k][1] = slots[k][3].epoch
          /\ slots[k][2] > 0
          /\ slots[k][1] + slots[k][2] =
                IF k < Len(slots) THEN slots[k + 1][1] ELSE end_utc

\* C3: in chain mode, a name group of N records whose epochs are all before
\* the overall end gets exactly N slots, which tile [first_epoch, end_utc):
\* each slot's start plus its duration is the next slot's start, the last
\* one's is end_utc.
C3_ChainTiles ==
    (chain_tles /\ sat_list # None) =>
        \A n \in GroupNames : AllBeforeEnd(n) => Tiles(SlotsOf(n), n)

C3_Witness ==
    /\ chain_tles /\ sat_list # None
    /\ \E n \in GroupNames :
          /\ AllBeforeEnd(n)
          /\ Cardinality(GroupIndices(n)) = 3
          /\ \E i, j \in GroupIndices(n) :
                i < j /\ active_sats[i].epoch > active_sats[j].epoch

\* C4: in chain mode, a name group whose every epoch is at or after the
\* overall end contributes no slots and the catalog is still built: no call
\* raises.
C4_DiscardedGroupNoError ==
    (chain_tles /\ \E n \in GroupNames : NoneBeforeEnd(n)) =>
        cat_state # "raised"

NumSlots ==
    IF chain_tles
    THEN Cardinality({i \in 1..Len(active_sats) : active_sats[i].epoch < end_utc})
    ELSE Len(active_sats)

NumObs == Len(active_observatories)

\* C5: in both modes len(catalog) is slots x observatories and a full
\* iteration yields every (observatory, slot) combination exactly once,
\* observatory-major; an empty object list gives length 0 and no items.
C5_CrossProduct ==
    /\ len_result # None => len_result[1] = NumSlots * NumObs
    /\ iter_result # None =>
          /\ Len(sat_list[1]) = NumSlots
          /\ Len(iter_result[1]) = NumSlots * NumObs
          /\ \A o \in 1..NumObs, k \in 1..NumSlots :
                LET item == iter_result[1][(o - 1) * NumSlots + k]
                    slot == sat_list[1][k]
                IN /\ item[3][1] = active_observatories[o]
                   /\ IF chain_tles
                      THEN item = <<slot[1], slot[2], <<active_observatories[o], slot[3]>>>>
                      ELSE item = <<start_utc, end_days, <<active_observatories[o], slot>>>>

C5_Witness ==
    /\ len_result = Some(6)
    /\ iter_result # None /\ Len(iter_result[1]) = 6
    /\ NumObs = 2 /\ ~chain_tles

----------------------------------------------------------------------------
(* Properties of make_bounded_time_list *)

ValidGridInput == start_time < end_time /\ step_size > 0

Occurrences(g, x) == Cardinality({i \in 1..Len(g) : g[i] = x})

\* C6: make_bounded_time_list fails whenever step <= 0 or end <= start; it
\* never returns a grid for such inputs.
C6_InvalidInputFails ==
    (step_size <= 0 \/ end_time <= start_time) => grid_state # "returned"

\* C7: for start < end and step > 0 the grid starts with start, ends with
\* end, holds each of them exactly once and is strictly increasing.
C7_GridStrictlyIncreasing ==
    (grid_state = "returned" /\ ValidGridInput) =>
        LET g == time_list[1]
        IN /\ g[1] = start_time
           /\ g[Len(g)] = end_time
           /\ Occurrences(g, start_time) = 1
           /\ Occurrences(g, end_time) = 1
           /\ \A i \in 1..(Len(g) - 1) : g[i] < g[i + 1]

C7_Witness ==
    /\ grid_state = "returned" /\ ValidGridInput
    /\ (end_time - start_time) % step_size = 0
    /\ Len(time_list[1]) = 3

====
